---- MODULE Spec2Model ----
(***************************************************************************)
(* DeviceProfileStorage (services/core/src/dbstorage/                      *)
(* device_profile_storage.cpp): an accessor over a distributed key-value   *)
(* store.  Several threads call its public methods; storageLock_ is a      *)
(* std::shared_mutex.  The key-value store and its manager are external    *)
(* collaborators and are modelled as an environment.                       *)
(***************************************************************************)
EXTENDS Integers, Sequences, FiniteSets

\* constexpr int32_t RETRY_TIMES_GET_KVSTORE = 10;
RETRY_TIMES_GET_KVSTORE == 10

\* Longest keys / values vector handed to PutDeviceProfileBatch: by the
\* one thread of SingleThread, and by the concurrent threads of Spec.
MaxBatch == 2
ConcBatch == 1

\* Calling threads, profile keys, profile values, non-empty callbacks.
Threads == {"t1", "t2"}
Keys == {"k1", "k2"}
Values == {"v1", "v2"}
Callbacks == {"cb1", "cb2"}

\* nullptr: a null kvStorePtr_, an empty std::function.
NULL == "nullptr"
\* The std::shared_ptr<SingleKvStore> that GetSingleKvStore hands out.
HANDLE == "kvstore"
NoThread == "nobody"
\* A key the store holds no value for.
NoValue == <<>>

\* StorageInitStatus
UNINITED == "UNINITED"
INIT_FAILED == "INIT_FAILED"
INIT_SUCCEED == "INIT_SUCCEED"

\* DistributedKv::Status codes and the accessor's own error code.
SUCCESS == "SUCCESS"
KEY_NOT_FOUND == "KEY_NOT_FOUND"
DB_ERROR == "DB_ERROR"
ERR_DP_INVALID_PARAMS == "ERR_DP_INVALID_PARAMS"

VARIABLES
    pc,                     \* each thread's position in the method it runs
    retryTimes,             \* TryGetKvStore's local, per thread
    inCb,                   \* the thread is inside kvStoreInitCallback_()
    writer, readers,        \* storageLock_: exclusive owner, shared owners
    kvStorePtr_, initStatus_, kvStoreInitCallback_,
    store,                  \* contents of the external key-value store
    ev,                     \* the call that returned in the last step
    lastWrite,              \* the successful write a thread has just made
    regTrue, firstCb,       \* history of RegisterKvStoreInitCallback
    initDone, first,        \* history of Init
    initCall                \* history of each thread's Init call in progress

vars == <<pc, retryTimes, inCb, writer, readers, kvStorePtr_, initStatus_,
          kvStoreInitCallback_, store, ev, lastWrite, regTrue, firstCb,
          initDone, first, initCall>>

----------------------------------------------------------------------------
(* Values of the collaborator's types.                                     *)

\* Key k(key), Value v(value): a Blob holding the string's bytes.
Blob(s) == <<"blob", s>>
\* Value::ToString() (v.ToString()): the bytes of the Blob as a string.
ValueToString(b) == b[2]

BlobKeys == {Blob(k) : k \in Keys}
BlobValues == {Blob(v) : v \in Values}
EmptyStore == [k \in BlobKeys |-> NoValue]

\* Sequences of length 0..n over S.
SeqsUpTo(S, n) == UNION {[1..m -> S] : m \in 0..n}

----------------------------------------------------------------------------
(* The external store (SingleKvStore) and its manager.                     *)

\* SingleKvStore::Get
StoreGet(s, k) ==
    IF s[k] = NoValue THEN [status |-> KEY_NOT_FOUND, value |-> NoValue]
    ELSE [status |-> SUCCESS, value |-> s[k]]

\* SingleKvStore::Put: succeeds, or fails and writes nothing
StorePut(s, k, v) ==
    {[status |-> SUCCESS, store |-> [s EXCEPT ![k] = v]],
     [status |-> DB_ERROR, store |-> s]}

RECURSIVE ApplyBatch(_, _)
ApplyBatch(s, entries) ==
    IF entries = <<>> THEN s
    ELSE ApplyBatch([s EXCEPT ![Head(entries).key] = Head(entries).value],
                    Tail(entries))

\* SingleKvStore::PutBatch: all entries in order, or none
StorePutBatch(s, entries) ==
    {[status |-> SUCCESS, store |-> ApplyBatch(s, entries)],
     [status |-> DB_ERROR, store |-> s]}

\* SingleKvStore::Delete
StoreDelete(s, k) ==
    {[status |-> SUCCESS, store |-> [s EXCEPT ![k] = NoValue]],
     [status |-> DB_ERROR, store |-> s]}

\* DistributedKvDataManager::DeleteKvStore
ManagerDeleteKvStore(s) ==
    {[status |-> SUCCESS, store |-> EmptyStore],
     [status |-> DB_ERROR, store |-> s]}

\* DistributedKvDataManager::GetSingleKvStore(options_, appId_, storeId_,
\* kvStorePtr_): the status and what it leaves in the out-parameter.
GetSingleKvStore(ptr) ==
    {[status |-> SUCCESS, ptr |-> HANDLE],
     [status |-> SUCCESS, ptr |-> NULL],
     [status |-> DB_ERROR, ptr |-> NULL],
     [status |-> DB_ERROR, ptr |-> ptr]}

----------------------------------------------------------------------------
(* The bodies of the methods, as functions of what they read.              *)

\* One call on the store handle, as the store sees it.
StoreCall(fn, k, v, entries) ==
    [fn |-> fn, key |-> k, value |-> v, entries |-> entries]

\* Bug: the check of the slot is missing, every call stores its callback.
Register_Overwrite(slot, callback) == [ret |-> TRUE, slot |-> callback]

\* RegisterKvStoreInitCallback: the value returned and the callback slot.
RegisterKvStoreInitCallback(slot, callback) ==
    IF slot # NULL
    THEN [ret |-> FALSE, slot |-> slot]
    ELSE [ret |-> TRUE, slot |-> callback]

\* GetInitStatus
GetInitStatus == initStatus_

\* Bug: <= for <, one attempt too many.
LoopCondition_OffByOne(retry) == retry <= RETRY_TIMES_GET_KVSTORE

\* while (retryTimes < RETRY_TIMES_GET_KVSTORE)
LoopCondition(retry) == retry < RETRY_TIMES_GET_KVSTORE

\* Bug: the handle is not looked at.
AttemptSucceeded_StatusOnly(status, ptr) == status = SUCCESS

\* if (GetKvStore() == Status::SUCCESS && kvStorePtr_ != nullptr)
AttemptSucceeded(status, ptr) == status = SUCCESS /\ ptr # NULL

\* TryGetKvStore after its loop: the init status and the value returned.
TryGetKvStoreExit(ptr, status) ==
    IF ptr = NULL
    THEN [status |-> INIT_FAILED, result |-> FALSE]
    ELSE [status |-> status, result |-> TRUE]

\* Bug (or fix): a failed acquisition is not overwritten.
InitFinalStatus_KeepFailed(status) ==
    IF status = INIT_FAILED THEN INIT_FAILED ELSE INIT_SUCCEED

\* Init's last statement: initStatus_ = StorageInitStatus::INIT_SUCCEED.
InitFinalStatus(status) == INIT_SUCCEED

\* Bug: value = v.ToString() is missing.
GetDeviceProfile_NoAssign(ptr, s, key, value) ==
    IF ptr = NULL
    THEN [ret |-> ERR_DP_INVALID_PARAMS, value |-> value, calls |-> <<>>]
    ELSE [ret |-> StoreGet(s, Blob(key)).status, value |-> value,
          calls |-> <<StoreCall("Get", Blob(key), NoValue, <<>>)>>]

\* Bug: a failed Get is reported as SUCCESS.
GetDeviceProfile_SwallowStatus(ptr, s, key, value) ==
    IF ptr = NULL
    THEN [ret |-> ERR_DP_INVALID_PARAMS, value |-> value, calls |-> <<>>]
    ELSE LET r == StoreGet(s, Blob(key))
         IN  [ret |-> SUCCESS,
              value |-> IF r.status = SUCCESS THEN ValueToString(r.value)
                        ELSE value,
              calls |-> <<StoreCall("Get", Blob(key), NoValue, <<>>)>>]

\* Bug: the caller's value is cleared before the store is asked.
GetDeviceProfile_ClearFirst(ptr, s, key, value) ==
    IF ptr = NULL
    THEN [ret |-> ERR_DP_INVALID_PARAMS, value |-> value, calls |-> <<>>]
    ELSE LET k == Blob(key)
             r == StoreGet(s, k)
             c == <<StoreCall("Get", k, NoValue, <<>>)>>
         IN  IF r.status # SUCCESS
             THEN [ret |-> r.status, value |-> "", calls |-> c]
             ELSE [ret |-> r.status, value |-> ValueToString(r.value),
                   calls |-> c]

\* GetDeviceProfile under its lock: return code, the caller's value, calls.
GetDeviceProfile(ptr, s, key, value) ==
    IF ptr = NULL
    THEN [ret |-> ERR_DP_INVALID_PARAMS, value |-> value, calls |-> <<>>]
    ELSE LET k == Blob(key)
             r == StoreGet(s, k)
             c == <<StoreCall("Get", k, NoValue, <<>>)>>
         IN  IF r.status # SUCCESS
             THEN [ret |-> r.status, value |-> value, calls |-> c]
             ELSE [ret |-> r.status, value |-> ValueToString(r.value),
                   calls |-> c]

\* Bug: a failed Put is tried a second time.
PutDeviceProfile_RetryOnce(ptr, s, key, value) ==
    IF ptr = NULL
    THEN {[ret |-> ERR_DP_INVALID_PARAMS, store |-> s, calls |-> <<>>]}
    ELSE LET k == Blob(key)
             v == Blob(value)
             c == StoreCall("Put", k, v, <<>>)
         IN  {[ret |-> SUCCESS, store |-> [s EXCEPT ![k] = v],
               calls |-> <<c>>]}
             \cup {[ret |-> r.status, store |-> r.store, calls |-> <<c, c>>] :
                       r \in StorePut(s, k, v)}

\* PutDeviceProfile under its lock: the possible outcomes.
PutDeviceProfile(ptr, s, key, value) ==
    IF ptr = NULL
    THEN {[ret |-> ERR_DP_INVALID_PARAMS, store |-> s, calls |-> <<>>]}
    ELSE LET k == Blob(key)
             v == Blob(value)
         IN  {[ret |-> r.status, store |-> r.store,
               calls |-> <<StoreCall("Put", k, v, <<>>)>>] :
                 r \in StorePut(s, k, v)}

\* Bug: the values are taken from the back.
BuildEntries_Reversed(keys, values, i, entries) ==
    [j \in 1..Len(keys) |->
        [key |-> Blob(keys[j]), value |-> Blob(values[Len(keys) + 1 - j])]]

\* The loop that fills entries: for (uint32_t i = 0; i < keySize; i++).
RECURSIVE BuildEntries(_, _, _, _)
BuildEntries(keys, values, i, entries) ==
    IF i < Len(keys)
    THEN BuildEntries(keys, values, i + 1,
             Append(entries, [key |-> Blob(keys[i + 1]),
                              value |-> Blob(values[i + 1])]))
    ELSE entries

\* Bug: keySize > valSize for keySize != valSize.
PutDeviceProfileBatch_WeakCheck(ptr, s, keys, values) ==
    IF ptr = NULL \/ Len(keys) > Len(values)
    THEN {[ret |-> ERR_DP_INVALID_PARAMS, store |-> s, calls |-> <<>>]}
    ELSE LET entries == [j \in 1..Len(keys) |->
                            [key |-> Blob(keys[j]), value |-> Blob(values[j])]]
         IN  {[ret |-> r.status, store |-> r.store,
               calls |-> <<StoreCall("PutBatch", NoValue, NoValue, entries)>>] :
                 r \in StorePutBatch(s, entries)}

\* PutDeviceProfileBatch under its lock: the possible outcomes.
PutDeviceProfileBatch(ptr, s, keys, values) ==
    IF ptr = NULL
    THEN {[ret |-> ERR_DP_INVALID_PARAMS, store |-> s, calls |-> <<>>]}
    ELSE IF Len(keys) # Len(values)
    THEN {[ret |-> ERR_DP_INVALID_PARAMS, store |-> s, calls |-> <<>>]}
    ELSE LET entries == BuildEntries(keys, values, 0, <<>>)
         IN  {[ret |-> r.status, store |-> r.store,
               calls |-> <<StoreCall("PutBatch", NoValue, NoValue, entries)>>] :
                 r \in StorePutBatch(s, entries)}

\* Bug: the null check is missing.
DeleteDeviceProfile_NoNullCheck(ptr, s, key) ==
    {[ret |-> r.status, store |-> r.store,
      calls |-> <<StoreCall("Delete", Blob(key), NoValue, <<>>)>>] :
        r \in StoreDelete(s, Blob(key))}

\* DeleteDeviceProfile under its lock: the possible outcomes.
DeleteDeviceProfile(ptr, s, key) ==
    IF ptr = NULL
    THEN {[ret |-> ERR_DP_INVALID_PARAMS, store |-> s, calls |-> <<>>]}
    ELSE LET k == Blob(key)
         IN  {[ret |-> r.status, store |-> r.store,
               calls |-> <<StoreCall("Delete", k, NoValue, <<>>)>>] :
                 r \in StoreDelete(s, k)}

----------------------------------------------------------------------------
(* storageLock_                                                            *)

\* std::unique_lock<std::shared_mutex> can be taken
CanLockUnique(t) == writer = NoThread /\ readers = {}
\* Bug: a reader does not wait for the writer.
CanLockShared_Always(t) == TRUE

\* Bug: a reader waits for the other readers, as a writer does.
CanLockShared_Exclusive(t) == writer = NoThread /\ readers = {}

\* std::shared_lock<std::shared_mutex> can be taken
CanLockShared(t) == writer = NoThread

----------------------------------------------------------------------------
(* History: the call that has just returned, and the last write.           *)

NoEv ==
    [op |-> "none", t |-> NoThread, inCb |-> FALSE, ret |-> "none",
     bret |-> FALSE, key |-> "none", value |-> "none", value0 |-> "none",
     keys |-> <<>>, values |-> <<>>, calls |-> <<>>, ptr |-> NULL,
     store0 |-> EmptyStore, cb |-> NULL, slot0 |-> NULL, hadTrue |-> FALSE,
     hadFirst |-> FALSE, attempts |-> 0, status0 |-> UNINITED, cbs |-> 0]

NoWrite == [t |-> NoThread, op |-> "none", entries |-> <<>>]
\* The thread is in no Init(): slot at the call, callback invocations made.
NoInitCall == [slot0 |-> NULL, cbs |-> 0]

\* The step is not a return, and is no part of a read by the writing thread.
Quiet == ev' = NoEv /\ lastWrite' = NoWrite
\* The step belongs to a GetDeviceProfile of thread t.
KeepWrite(t) == lastWrite' = IF lastWrite.t = t THEN lastWrite ELSE NoWrite

\* Where a call made by thread t returns to.
ReturnPc(t) == IF inCb[t] THEN "cb" ELSE "idle"
\* Thread t can make a call: it runs no method, or runs the init callback.
AtCallSite(t) == pc[t] \in {"idle", "cb"}

Init ==
    /\ pc = [t \in Threads |-> "idle"]
    /\ retryTimes = [t \in Threads |-> 0]
    /\ inCb = [t \in Threads |-> FALSE]
    /\ writer = NoThread
    /\ readers = {}
    /\ kvStorePtr_ = NULL
    /\ initStatus_ = UNINITED
    /\ kvStoreInitCallback_ = NULL
    /\ store = EmptyStore
    /\ ev = NoEv
    /\ lastWrite = NoWrite
    /\ regTrue = FALSE
    /\ firstCb = NULL
    /\ initDone = FALSE
    /\ first = NoThread
    /\ initCall = [t \in Threads |-> NoInitCall]

----------------------------------------------------------------------------
(* The methods, step by step.  A method that takes storageLock_ is three   *)
(* steps: the call (Enter), the lock (Lock), and its body to the return    *)
(* with the lock released (Run); nothing reads the arguments before the    *)
(* body does, so Run carries them.  Init's retry loop is one step per      *)
(* pass.  A method that takes no lock is one step; calls of                *)
(* RegisterKvStoreInitCallback do not overlap.  GetDeviceProfile,          *)
(* PutDeviceProfile and GetInitStatus may also be called from the          *)
(* callback that Init invokes.                                             *)

(* RegisterKvStoreInitCallback, GetInitStatus, DeleteKvStore: no lock.     *)

Register(t, callback) ==
    /\ pc[t] = "idle"
    /\ LET r == RegisterKvStoreInitCallback(kvStoreInitCallback_, callback)
       IN  /\ kvStoreInitCallback_' = r.slot
           /\ ev' = [NoEv EXCEPT !.op = "Register", !.t = t, !.bret = r.ret,
                        !.cb = callback, !.slot0 = kvStoreInitCallback_,
                        !.hadTrue = regTrue, !.hadFirst = (firstCb # NULL)]
           /\ regTrue' = (regTrue \/ r.ret)
           /\ firstCb' = IF firstCb = NULL /\ r.ret THEN callback ELSE firstCb
    /\ lastWrite' = NoWrite
    /\ UNCHANGED initCall
    /\ UNCHANGED <<pc, retryTimes, inCb, writer, readers, kvStorePtr_,
                   initStatus_, store, initDone, first>>

ReadInitStatus(t) ==
    /\ AtCallSite(t)
    /\ ev' = [NoEv EXCEPT !.op = "GetInitStatus", !.t = t, !.inCb = inCb[t],
                 !.ret = GetInitStatus]
    /\ lastWrite' = NoWrite
    /\ UNCHANGED initCall
    /\ UNCHANGED <<pc, retryTimes, inCb, writer, readers, kvStorePtr_,
                   initStatus_, kvStoreInitCallback_, store, regTrue, firstCb,
                   initDone, first>>

\* Bug: the handle is dropped with the store.
DeleteKvStore_ResetHandle(t) ==
    /\ pc[t] = "idle"
    /\ \E r \in ManagerDeleteKvStore(store) :
          /\ store' = r.store
          /\ ev' = [NoEv EXCEPT !.op = "DeleteKvStore", !.t = t,
                       !.ret = r.status, !.store0 = store,
                       !.ptr = kvStorePtr_, !.status0 = initStatus_,
                       !.slot0 = kvStoreInitCallback_,
                       !.calls = <<StoreCall("DeleteKvStore", NoValue,
                                             NoValue, <<>>)>>]
    /\ kvStorePtr_' = NULL
    /\ lastWrite' = NoWrite
    /\ UNCHANGED initCall
    /\ UNCHANGED <<pc, retryTimes, inCb, writer, readers, initStatus_,
                   kvStoreInitCallback_, regTrue, firstCb, initDone, first>>

DeleteKvStore(t) ==
    /\ pc[t] = "idle"
    /\ \E r \in ManagerDeleteKvStore(store) :
          /\ store' = r.store
          /\ ev' = [NoEv EXCEPT !.op = "DeleteKvStore", !.t = t,
                       !.ret = r.status, !.store0 = store,
                       !.ptr = kvStorePtr_, !.status0 = initStatus_,
                       !.slot0 = kvStoreInitCallback_,
                       !.calls = <<StoreCall("DeleteKvStore", NoValue,
                                             NoValue, <<>>)>>]
    /\ lastWrite' = NoWrite
    /\ UNCHANGED initCall
    /\ UNCHANGED <<pc, retryTimes, inCb, writer, readers, kvStorePtr_,
                   initStatus_, kvStoreInitCallback_, regTrue, firstCb,
                   initDone, first>>

----------------------------------------------------------------------------
(* Init and TryGetKvStore.                                                 *)

\* Init is called.
InitEnter(t) ==
    /\ pc[t] = "idle"
    /\ pc' = [pc EXCEPT ![t] = "init_wait"]
    /\ first' = IF first = NoThread THEN t ELSE first
    /\ Quiet
    /\ initCall' = [initCall EXCEPT
                       ![t] = [slot0 |-> kvStoreInitCallback_, cbs |-> 0]]
    /\ UNCHANGED <<retryTimes, inCb, writer, readers, kvStorePtr_,
                   initStatus_, kvStoreInitCallback_, store, regTrue, firstCb,
                   initDone>>

\* std::unique_lock writeLock(storageLock_); TryGetKvStore: retryTimes = 0.
InitLock(t) ==
    /\ pc[t] = "init_wait"
    /\ CanLockUnique(t)
    /\ writer' = t
    /\ retryTimes' = [retryTimes EXCEPT ![t] = 0]
    /\ pc' = [pc EXCEPT ![t] = "init_try"]
    /\ Quiet
    /\ UNCHANGED initCall
    /\ UNCHANGED <<inCb, readers, kvStorePtr_, initStatus_,
                   kvStoreInitCallback_, store, regTrue, firstCb, initDone,
                   first>>

\* Bug: the lock is still held when the callback is invoked.
InitUnlock_Missing(t) == writer

\* writeLock.unlock()
InitUnlock(t) == IF writer = t THEN NoThread ELSE writer

\* One pass of the loop: GetKvStore(), then return true or sleep and retry.
TryAttempt(t) ==
    /\ pc[t] = "init_try"
    /\ LoopCondition(retryTimes[t])
    /\ \E r \in GetSingleKvStore(kvStorePtr_) :
          /\ kvStorePtr_' = r.ptr
          /\ IF AttemptSucceeded(r.status, r.ptr)
             THEN /\ pc' = [pc EXCEPT ![t] = "init_cbcheck"]
                  /\ writer' = InitUnlock(t)
                  /\ retryTimes' = [retryTimes EXCEPT ![t] = 0]
                  /\ ev' = [NoEv EXCEPT !.op = "TryGetKvStore", !.t = t,
                               !.bret = TRUE, !.attempts = retryTimes[t] + 1,
                               !.ret = r.status, !.ptr = r.ptr,
                               !.status0 = initStatus_]
             ELSE /\ retryTimes' = [retryTimes EXCEPT ![t] = retryTimes[t] + 1]
                  /\ ev' = [NoEv EXCEPT !.op = "GetKvStore", !.t = t,
                               !.attempts = retryTimes[t] + 1,
                               !.ret = r.status, !.ptr = r.ptr,
                               !.status0 = initStatus_]
                  /\ UNCHANGED <<pc, writer>>
    /\ lastWrite' = NoWrite
    /\ UNCHANGED initCall
    /\ UNCHANGED <<inCb, readers, initStatus_, kvStoreInitCallback_, store,
                   regTrue, firstCb, initDone, first>>

\* The loop is over: INIT_FAILED and false when the handle is null.
TryExhausted(t) ==
    /\ pc[t] = "init_try"
    /\ ~LoopCondition(retryTimes[t])
    /\ LET x == TryGetKvStoreExit(kvStorePtr_, initStatus_)
       IN  /\ initStatus_' = x.status
           /\ ev' = [NoEv EXCEPT !.op = "TryGetKvStore", !.t = t,
                        !.bret = x.result, !.attempts = retryTimes[t],
                        !.ptr = kvStorePtr_, !.status0 = initStatus_]
    /\ pc' = [pc EXCEPT ![t] = "init_cbcheck"]
    /\ writer' = InitUnlock(t)
    /\ retryTimes' = [retryTimes EXCEPT ![t] = 0]
    /\ lastWrite' = NoWrite
    /\ UNCHANGED initCall
    /\ UNCHANGED <<inCb, readers, kvStorePtr_, kvStoreInitCallback_, store,
                   regTrue, firstCb, initDone, first>>

\* Bug: the init status is set before the callback is called.
InitCallback_StatusFirst(t) ==
    /\ pc[t] = "init_cbcheck"
    /\ initStatus_' = INIT_SUCCEED
    /\ IF kvStoreInitCallback_ # NULL
       THEN /\ pc' = [pc EXCEPT ![t] = "cb"]
            /\ inCb' = [inCb EXCEPT ![t] = TRUE]
       ELSE /\ pc' = [pc EXCEPT ![t] = "init_set"]
            /\ UNCHANGED inCb
    /\ Quiet
    /\ initCall' = IF kvStoreInitCallback_ # NULL
                   THEN [initCall EXCEPT ![t].cbs = @ + 1]
                   ELSE initCall
    /\ UNCHANGED <<retryTimes, writer, readers, kvStorePtr_,
                   kvStoreInitCallback_, store, regTrue, firstCb, initDone,
                   first>>

\* Bug: the callback is invoked only when the handle was acquired.
InitCallback_OnlyOnSuccess(t) ==
    /\ pc[t] = "init_cbcheck"
    /\ IF kvStoreInitCallback_ # NULL /\ kvStorePtr_ # NULL
       THEN /\ pc' = [pc EXCEPT ![t] = "cb"]
            /\ inCb' = [inCb EXCEPT ![t] = TRUE]
            /\ initCall' = [initCall EXCEPT ![t].cbs = @ + 1]
       ELSE /\ pc' = [pc EXCEPT ![t] = "init_set"]
            /\ UNCHANGED <<inCb, initCall>>
    /\ Quiet
    /\ UNCHANGED <<retryTimes, writer, readers, kvStorePtr_, initStatus_,
                   kvStoreInitCallback_, store, regTrue, firstCb, initDone,
                   first>>

\* if (kvStoreInitCallback_ != nullptr) kvStoreInitCallback_();
InitCallback(t) ==
    /\ pc[t] = "init_cbcheck"
    /\ IF kvStoreInitCallback_ # NULL
       THEN /\ pc' = [pc EXCEPT ![t] = "cb"]
            /\ inCb' = [inCb EXCEPT ![t] = TRUE]
       ELSE /\ pc' = [pc EXCEPT ![t] = "init_set"]
            /\ UNCHANGED inCb
    /\ Quiet
    /\ initCall' = IF kvStoreInitCallback_ # NULL
                   THEN [initCall EXCEPT ![t].cbs = @ + 1]
                   ELSE initCall
    /\ UNCHANGED <<retryTimes, writer, readers, kvStorePtr_, initStatus_,
                   kvStoreInitCallback_, store, regTrue, firstCb, initDone,
                   first>>

\* The callback returns.
CallbackReturn(t) ==
    /\ pc[t] = "cb"
    /\ pc' = [pc EXCEPT ![t] = "init_set"]
    /\ inCb' = [inCb EXCEPT ![t] = FALSE]
    /\ Quiet
    /\ UNCHANGED initCall
    /\ UNCHANGED <<retryTimes, writer, readers, kvStorePtr_, initStatus_,
                   kvStoreInitCallback_, store, regTrue, firstCb, initDone,
                   first>>

\* initStatus_ = StorageInitStatus::INIT_SUCCEED; Init returns.
InitSetStatus(t) ==
    /\ pc[t] = "init_set"
    /\ initStatus_' = InitFinalStatus(initStatus_)
    /\ pc' = [pc EXCEPT ![t] = "idle"]
    /\ ev' = [NoEv EXCEPT !.op = "Init", !.t = t, !.ptr = kvStorePtr_,
                 !.status0 = initStatus_, !.slot0 = initCall[t].slot0,
                 !.cb = kvStoreInitCallback_, !.cbs = initCall[t].cbs,
                 !.hadTrue = initDone]
    /\ initDone' = TRUE
    /\ first' = IF first = t THEN "over" ELSE first
    /\ lastWrite' = NoWrite
    /\ initCall' = [initCall EXCEPT ![t] = NoInitCall]
    /\ UNCHANGED <<retryTimes, inCb, writer, readers, kvStorePtr_,
                   kvStoreInitCallback_, store, regTrue, firstCb>>

----------------------------------------------------------------------------
(* GetDeviceProfile: shared lock.                                          *)

GetEnter(t) ==
    /\ AtCallSite(t)
    /\ pc' = [pc EXCEPT ![t] = "get_wait"]
    /\ ev' = NoEv
    /\ KeepWrite(t)
    /\ UNCHANGED initCall
    /\ UNCHANGED <<retryTimes, inCb, writer, readers, kvStorePtr_,
                   initStatus_, kvStoreInitCallback_, store, regTrue, firstCb,
                   initDone, first>>

\* std::shared_lock<std::shared_mutex> readLock(storageLock_);
GetLock(t) ==
    /\ pc[t] = "get_wait"
    /\ CanLockShared(t)
    /\ readers' = readers \cup {t}
    /\ pc' = [pc EXCEPT ![t] = "get_locked"]
    /\ ev' = NoEv
    /\ KeepWrite(t)
    /\ UNCHANGED initCall
    /\ UNCHANGED <<retryTimes, inCb, writer, kvStorePtr_, initStatus_,
                   kvStoreInitCallback_, store, regTrue, firstCb, initDone,
                   first>>

\* The body with the arguments (key, value) of the call; readLock goes.
GetRun(t, key, value) ==
    /\ pc[t] = "get_locked"
    /\ LET r == GetDeviceProfile(kvStorePtr_, store, key, value)
       IN  ev' = [NoEv EXCEPT !.op = "Get", !.t = t, !.inCb = inCb[t],
                     !.ret = r.ret, !.key = key, !.value0 = value,
                     !.value = r.value, !.calls = r.calls,
                     !.ptr = kvStorePtr_, !.store0 = store,
                     !.status0 = initStatus_]
    /\ readers' = readers \ {t}
    /\ pc' = [pc EXCEPT ![t] = ReturnPc(t)]
    /\ KeepWrite(t)
    /\ UNCHANGED initCall
    /\ UNCHANGED <<retryTimes, inCb, writer, kvStorePtr_, initStatus_,
                   kvStoreInitCallback_, store, regTrue, firstCb, initDone,
                   first>>

----------------------------------------------------------------------------
(* PutDeviceProfile, PutDeviceProfileBatch, DeleteDeviceProfile:           *)
(* exclusive lock.                                                         *)

PutEnter(t) ==
    /\ AtCallSite(t)
    /\ pc' = [pc EXCEPT ![t] = "put_wait"]
    /\ Quiet
    /\ UNCHANGED initCall
    /\ UNCHANGED <<retryTimes, inCb, writer, readers, kvStorePtr_,
                   initStatus_, kvStoreInitCallback_, store, regTrue, firstCb,
                   initDone, first>>

\* std::unique_lock<std::shared_mutex> writeLock(storageLock_);
PutLock(t) ==
    /\ pc[t] = "put_wait"
    /\ CanLockUnique(t)
    /\ writer' = t
    /\ pc' = [pc EXCEPT ![t] = "put_locked"]
    /\ Quiet
    /\ UNCHANGED initCall
    /\ UNCHANGED <<retryTimes, inCb, readers, kvStorePtr_, initStatus_,
                   kvStoreInitCallback_, store, regTrue, firstCb, initDone,
                   first>>

PutRun(t, key, value) ==
    /\ pc[t] = "put_locked"
    /\ \E r \in PutDeviceProfile(kvStorePtr_, store, key, value) :
          /\ store' = r.store
          /\ ev' = [NoEv EXCEPT !.op = "Put", !.t = t, !.inCb = inCb[t],
                       !.ret = r.ret, !.key = key, !.value = value,
                       !.calls = r.calls, !.ptr = kvStorePtr_,
                       !.store0 = store, !.status0 = initStatus_]
          /\ lastWrite' = IF r.ret = SUCCESS
                          THEN [t |-> t, op |-> "Put",
                                entries |-> <<[key |-> key, value |-> value]>>]
                          ELSE NoWrite
    /\ writer' = NoThread
    /\ pc' = [pc EXCEPT ![t] = ReturnPc(t)]
    /\ UNCHANGED initCall
    /\ UNCHANGED <<retryTimes, inCb, readers, kvStorePtr_, initStatus_,
                   kvStoreInitCallback_, regTrue, firstCb, initDone, first>>

BatchEnter(t) ==
    /\ pc[t] = "idle"
    /\ pc' = [pc EXCEPT ![t] = "batch_wait"]
    /\ Quiet
    /\ UNCHANGED initCall
    /\ UNCHANGED <<retryTimes, inCb, writer, readers, kvStorePtr_,
                   initStatus_, kvStoreInitCallback_, store, regTrue, firstCb,
                   initDone, first>>

BatchLock(t) ==
    /\ pc[t] = "batch_wait"
    /\ CanLockUnique(t)
    /\ writer' = t
    /\ pc' = [pc EXCEPT ![t] = "batch_locked"]
    /\ Quiet
    /\ UNCHANGED initCall
    /\ UNCHANGED <<retryTimes, inCb, readers, kvStorePtr_, initStatus_,
                   kvStoreInitCallback_, store, regTrue, firstCb, initDone,
                   first>>

\* Bug: the return for vectors of different lengths keeps the lock.
BatchRun_LeakOnMismatch(t, keys, values) ==
    /\ pc[t] = "batch_locked"
    /\ \E r \in PutDeviceProfileBatch(kvStorePtr_, store, keys, values) :
          /\ store' = r.store
          /\ ev' = [NoEv EXCEPT !.op = "PutBatch", !.t = t, !.ret = r.ret,
                       !.keys = keys, !.values = values, !.calls = r.calls,
                       !.ptr = kvStorePtr_, !.store0 = store]
          /\ lastWrite' = NoWrite
    /\ writer' = IF kvStorePtr_ # NULL /\ Len(keys) # Len(values)
                 THEN writer ELSE NoThread
    /\ pc' = [pc EXCEPT ![t] = "idle"]
    /\ UNCHANGED initCall
    /\ UNCHANGED <<retryTimes, inCb, readers, kvStorePtr_, initStatus_,
                   kvStoreInitCallback_, regTrue, firstCb, initDone, first>>

BatchRun(t, keys, values) ==
    /\ pc[t] = "batch_locked"
    /\ \E r \in PutDeviceProfileBatch(kvStorePtr_, store, keys, values) :
          /\ store' = r.store
          /\ ev' = [NoEv EXCEPT !.op = "PutBatch", !.t = t, !.ret = r.ret,
                       !.keys = keys, !.values = values, !.calls = r.calls,
                       !.ptr = kvStorePtr_, !.store0 = store]
          /\ lastWrite' = IF r.ret = SUCCESS
                          THEN [t |-> t, op |-> "PutBatch",
                                entries |-> [i \in 1..Len(keys) |->
                                    [key |-> keys[i], value |-> values[i]]]]
                          ELSE NoWrite
    /\ writer' = NoThread
    /\ pc' = [pc EXCEPT ![t] = "idle"]
    /\ UNCHANGED initCall
    /\ UNCHANGED <<retryTimes, inCb, readers, kvStorePtr_, initStatus_,
                   kvStoreInitCallback_, regTrue, firstCb, initDone, first>>

DeleteEnter(t) ==
    /\ pc[t] = "idle"
    /\ pc' = [pc EXCEPT ![t] = "del_wait"]
    /\ Quiet
    /\ UNCHANGED initCall
    /\ UNCHANGED <<retryTimes, inCb, writer, readers, kvStorePtr_,
                   initStatus_, kvStoreInitCallback_, store, regTrue, firstCb,
                   initDone, first>>

DeleteLock(t) ==
    /\ pc[t] = "del_wait"
    /\ CanLockUnique(t)
    /\ writer' = t
    /\ pc' = [pc EXCEPT ![t] = "del_locked"]
    /\ Quiet
    /\ UNCHANGED initCall
    /\ UNCHANGED <<retryTimes, inCb, readers, kvStorePtr_, initStatus_,
                   kvStoreInitCallback_, store, regTrue, firstCb, initDone,
                   first>>

DeleteRun(t, key) ==
    /\ pc[t] = "del_locked"
    /\ \E r \in DeleteDeviceProfile(kvStorePtr_, store, key) :
          /\ store' = r.store
          /\ ev' = [NoEv EXCEPT !.op = "Delete", !.t = t, !.ret = r.ret,
                       !.key = key, !.calls = r.calls, !.ptr = kvStorePtr_,
                       !.store0 = store]
          /\ lastWrite' = IF r.ret = SUCCESS
                          THEN [t |-> t, op |-> "Delete",
                                entries |-> <<[key |-> key, value |-> NoValue]>>]
                          ELSE NoWrite
    /\ writer' = NoThread
    /\ pc' = [pc EXCEPT ![t] = "idle"]
    /\ UNCHANGED initCall
    /\ UNCHANGED <<retryTimes, inCb, readers, kvStorePtr_, initStatus_,
                   kvStoreInitCallback_, regTrue, firstCb, initDone, first>>

----------------------------------------------------------------------------

\* The arguments the callers pass.
CallbackArgs == Callbacks \cup {NULL}
OutValues == Values \cup {""}
KeyVectors(n) == SeqsUpTo(Keys, n)
ValueVectors(n) == SeqsUpTo(Values, n)

\* One step of thread t; batches of up to n keys and n values.
ThreadStep(t, n) ==
    \/ \E callback \in CallbackArgs : Register(t, callback)
    \/ ReadInitStatus(t)
    \/ DeleteKvStore(t)
    \/ InitEnter(t)
    \/ InitLock(t)
    \/ TryAttempt(t)
    \/ TryExhausted(t)
    \/ InitCallback(t)
    \/ CallbackReturn(t)
    \/ InitSetStatus(t)
    \/ GetEnter(t)
    \/ GetLock(t)
    \/ \E key \in Keys, value \in OutValues : GetRun(t, key, value)
    \/ PutEnter(t)
    \/ PutLock(t)
    \/ \E key \in Keys, value \in Values : PutRun(t, key, value)
    \/ BatchEnter(t)
    \/ BatchLock(t)
    \/ \E keys \in KeyVectors(n), values \in ValueVectors(n) :
           BatchRun(t, keys, values)
    \/ DeleteEnter(t)
    \/ DeleteLock(t)
    \/ \E key \in Keys : DeleteRun(t, key)

\* Any thread calls any method at any time.
Next == \E t \in Threads : ThreadStep(t, ConcBatch)

Spec == Init /\ [][Next]_vars

\* One thread makes call after call, with longer batches.
NextSingle == ThreadStep("t1", MaxBatch)

SingleThread == Init /\ [][NextSingle]_vars

----------------------------------------------------------------------------
(* Scheduling: a thread inside a method keeps running, storageLock_ does   *)
(* not starve a thread that waits for it, and the init callback returns.   *)

\* The steps of thread t that wait for nothing.
Running(t) ==
    \/ TryAttempt(t)
    \/ TryExhausted(t)
    \/ InitCallback(t)
    \/ InitSetStatus(t)
    \/ \E key \in Keys, value \in OutValues : GetRun(t, key, value)
    \/ \E key \in Keys, value \in Values : PutRun(t, key, value)
    \/ \E keys \in KeyVectors(MaxBatch), values \in ValueVectors(MaxBatch) :
           BatchRun(t, keys, values)
    \/ \E key \in Keys : DeleteRun(t, key)

\* The steps of thread t that take storageLock_.
Locking(t) ==
    InitLock(t) \/ GetLock(t) \/ PutLock(t) \/ BatchLock(t) \/ DeleteLock(t)

\* Init, get and put alone, the calls whose return is in question, with one
\* callback, one key and one value: what a call is given plays no part in
\* whether it returns.
InitGetPut ==
    \E t \in Threads :
        \/ Register(t, "cb1")
        \/ InitEnter(t)
        \/ InitLock(t)
        \/ TryAttempt(t)
        \/ TryExhausted(t)
        \/ InitCallback(t)
        \/ CallbackReturn(t)
        \/ InitSetStatus(t)
        \/ GetEnter(t)
        \/ GetLock(t)
        \/ GetRun(t, "k1", "")
        \/ PutEnter(t)
        \/ PutLock(t)
        \/ PutRun(t, "k1", "v1")

Fairness ==
    \A t \in Threads :
        /\ WF_vars(Running(t))
        /\ SF_vars(Locking(t))
        /\ SF_vars(CallbackReturn(t))

FairSpec == Init /\ [][InitGetPut]_vars /\ Fairness

\* Init and the four data methods, no callback registered, one key and one
\* value, a batch of one pair and a batch with a key and no value.
DataCalls ==
    \E t \in Threads :
        \/ InitEnter(t)
        \/ InitLock(t)
        \/ TryAttempt(t)
        \/ TryExhausted(t)
        \/ InitCallback(t)
        \/ InitSetStatus(t)
        \/ GetEnter(t)
        \/ GetLock(t)
        \/ GetRun(t, "k1", "")
        \/ PutEnter(t)
        \/ PutLock(t)
        \/ PutRun(t, "k1", "v1")
        \/ BatchEnter(t)
        \/ BatchLock(t)
        \/ BatchRun(t, <<"k1">>, <<"v1">>)
        \/ BatchRun(t, <<"k1">>, <<>>)
        \/ DeleteEnter(t)
        \/ DeleteLock(t)
        \/ DeleteRun(t, "k1")

FairData ==
    /\ Init
    /\ [][DataCalls]_vars
    /\ \A t \in Threads : WF_vars(Running(t)) /\ SF_vars(Locking(t))

----------------------------------------------------------------------------
(* The claims.                                                             *)

DataOps == {"Get", "Put", "PutBatch", "Delete"}
\* Thread t is inside a section it entered with the exclusive lock.
WriteSection(t) ==
    pc[t] \in {"init_try", "put_locked", "batch_locked", "del_locked"}
\* Thread t is inside a section it entered with the shared lock.
ReadSection(t) == pc[t] = "get_locked"

\* C1: once initStatus_ is INIT_SUCCEED or INIT_FAILED, no step changes it.
C1_InitStatusMonotonic ==
    [][(initStatus_ \in {INIT_SUCCEED, INIT_FAILED})
          => (initStatus_' = initStatus_)]_vars

\* C2: TryGetKvStore makes at most RETRY_TIMES_GET_KVSTORE attempts and gives
\* the lock back when it ends; a get or put that finds the handle null
\* returns ERR_DP_INVALID_PARAMS.
C2_Bounded ==
    /\ \A t \in Threads : retryTimes[t] <= RETRY_TIMES_GET_KVSTORE
    /\ ev.op = "TryGetKvStore" =>
          /\ ev.attempts <= RETRY_TIMES_GET_KVSTORE
          /\ writer # ev.t
          /\ (~ev.bret => ev.attempts = RETRY_TIMES_GET_KVSTORE)
    /\ (ev.op \in {"Get", "Put"} /\ ev.ptr = NULL) =>
          ev.ret = ERR_DP_INVALID_PARAMS

\* C2: an Init() that has entered its retry loop returns, and a get or put
\* that waits for the lock returns, under the scheduling of FairSpec.
C2_InitTerminates ==
    /\ []C2_Bounded
    /\ \A t \in Threads :
          /\ (pc[t] = "init_try") ~> (pc[t] = "idle")
          /\ (pc[t] \in {"get_wait", "put_wait"}) ~> (pc[t] \in {"idle", "cb"})

\* After an Init() whose ten attempts all failed has returned, a put has
\* returned the null-handle error.
C2_Witness ==
    /\ ev.op = "Put"
    /\ ev.ptr = NULL
    /\ ev.status0 = INIT_SUCCEED
    /\ ev.ret = ERR_DP_INVALID_PARAMS

\* C3, as stated: while the callback of the Init() call that was made first
\* runs, GetInitStatus() is not INIT_SUCCEED.
C3_FirstInitCallback ==
    \A t \in Threads :
        (first = t /\ inCb[t]) => GetInitStatus # INIT_SUCCEED

\* While a callback runs and no Init() call has returned yet,
\* GetInitStatus() is not INIT_SUCCEED, from the callback or from elsewhere.
C3_DuringCallback ==
    /\ \A t \in Threads :
          (inCb[t] /\ ~initDone) => GetInitStatus # INIT_SUCCEED
    /\ (ev.op = "GetInitStatus" /\ ev.inCb /\ ~initDone) =>
          ev.ret # INIT_SUCCEED

\* C3, amended: a thread in Init() does not write initStatus_ from the end
\* of TryGetKvStore until its callback has returned, so the callback comes
\* before that call's INIT_SUCCEED; and while a callback runs and no Init()
\* call has returned yet, GetInitStatus() is not INIT_SUCCEED.
C3_CallbackBeforeStatus ==
    /\ []C3_DuringCallback
    /\ [][\A t \in Threads :
            ((pc[t] = "init_cbcheck" \/ inCb[t]) /\ pc'[t] # pc[t])
                => (initStatus_' = initStatus_)]_vars

\* The callback of an Init() whose acquisition failed reads INIT_FAILED.
C3_Witness ==
    /\ ev.op = "GetInitStatus"
    /\ ev.inCb
    /\ ~initDone
    /\ ev.ret = INIT_FAILED

\* C4: in the state in which Init() has just returned, GetInitStatus() is
\* INIT_SUCCEED, whether or not the handle was acquired.
C4_InitEndsSucceed ==
    ev.op = "Init" => GetInitStatus = INIT_SUCCEED

\* An Init() whose ten attempts failed has returned: handle null, the
\* INIT_FAILED of the retry loop overwritten.
C4_Witness ==
    /\ ev.op = "Init"
    /\ ev.status0 = INIT_FAILED
    /\ kvStorePtr_ = NULL
    /\ initStatus_ = INIT_SUCCEED

\* C5: a get, put, putBatch or delete that finds kvStorePtr_ null returns
\* ERR_DP_INVALID_PARAMS, makes no call on the store, and leaves the store
\* contents and the caller's output value as they were.
C5_NullHandleNotServed ==
    (ev.op \in DataOps /\ ev.ptr = NULL) =>
        /\ ev.ret = ERR_DP_INVALID_PARAMS
        /\ ev.calls = <<>>
        /\ store = ev.store0
        /\ (ev.op = "Get" => ev.value = ev.value0)

\* A delete was refused on a null handle while the store held a value.
C5_Witness ==
    /\ ev.op = "Delete"
    /\ ev.ptr = NULL
    /\ store[Blob(ev.key)] # NoValue

\* C6: no two threads are inside exclusive sections (Init's acquisition
\* loop, put, putBatch, delete) at once, none is inside one while a get is
\* inside its shared section, and a get/put/putBatch/delete never runs its
\* body while an Init is inside its retry loop.
C6_WritersExcluded ==
    /\ \A t, u \in Threads :
          (t # u /\ WriteSection(t)) => ~WriteSection(u) /\ ~ReadSection(u)
    /\ ev.op \in DataOps => \A u \in Threads : pc[u] # "init_try"

\* Init is in its retry loop after failed attempts while another thread
\* waits for the lock in a get.
C6_Witness ==
    \E t, u \in Threads :
        /\ pc[t] = "init_try"
        /\ retryTimes[t] >= 2
        /\ pc[u] = "get_wait"

\* C7: PutDeviceProfileBatch with vectors of different lengths returns
\* ERR_DP_INVALID_PARAMS, makes no PutBatch call and leaves the store as
\* it was, with a null handle or not.
C7_BatchLengthMismatch ==
    (ev.op = "PutBatch" /\ Len(ev.keys) # Len(ev.values)) =>
        /\ ev.ret = ERR_DP_INVALID_PARAMS
        /\ ev.calls = <<>>
        /\ store = ev.store0

\* A batch with fewer keys than values was refused on an acquired handle.
C7_Witness ==
    /\ ev.op = "PutBatch"
    /\ ev.ptr = HANDLE
    /\ Len(ev.keys) = 1
    /\ Len(ev.values) = 2

\* C8, as stated: after a call of RegisterKvStoreInitCallback has returned
\* true, every call returns false and leaves the slot as it was.
C8_AtMostOneTrue ==
    (ev.op = "Register" /\ ev.hadTrue) =>
        ~ev.bret /\ kvStoreInitCallback_ = ev.slot0

\* C8, amended: after a call with a non-empty callback has returned true,
\* every call returns false and the slot holds that first callback.
C8_AtMostOneCallbackSet ==
    /\ firstCb # NULL => kvStoreInitCallback_ = firstCb
    /\ (ev.op = "Register" /\ ev.hadFirst) =>
           ~ev.bret /\ kvStoreInitCallback_ = ev.slot0
    /\ (ev.op = "Register" /\ ev.bret /\ ev.cb # NULL) => ~ev.hadFirst

\* A second registration with another callback was rejected.
C8_Witness ==
    /\ ev.op = "Register"
    /\ ev.hadFirst
    /\ ev.cb \in Callbacks
    /\ ev.cb # firstCb
    /\ ~ev.bret

\* C9: a GetDeviceProfile(k) that a thread makes right after its
\* PutDeviceProfile(k, v) returned SUCCESS, no step of another call in
\* between, returns SUCCESS and sets the output to v.
C9_PutGetRoundTrip ==
    (/\ ev.op = "Get"
     /\ lastWrite.op = "Put"
     /\ lastWrite.t = ev.t
     /\ lastWrite.entries[1].key = ev.key) =>
        /\ ev.ret = SUCCESS
        /\ ev.value = lastWrite.entries[1].value

\* Such a get has returned, for a key that held another value before.
C9_Witness ==
    /\ ev.op = "Get"
    /\ lastWrite.op = "Put"
    /\ lastWrite.t = ev.t
    /\ lastWrite.entries[1].key = ev.key
    /\ ev.value0 \in Values
    /\ ev.value0 # ev.value

\* C10: PutDeviceProfileBatch with vectors of equal length on an acquired
\* handle makes one call, PutBatch, with one entry (keys[i], values[i]) per
\* index in input order; and a get of either key right after a successful
\* batch of two different keys returns SUCCESS and that key's value.
C10_BatchEntries ==
    /\ (ev.op = "PutBatch" /\ ev.ptr # NULL /\ Len(ev.keys) = Len(ev.values)) =>
          /\ Len(ev.calls) = 1
          /\ ev.calls[1].fn = "PutBatch"
          /\ Len(ev.calls[1].entries) = Len(ev.keys)
          /\ \A i \in 1..Len(ev.keys) :
                ev.calls[1].entries[i] =
                    [key |-> Blob(ev.keys[i]), value |-> Blob(ev.values[i])]
    /\ (/\ ev.op = "Get"
        /\ lastWrite.op = "PutBatch"
        /\ lastWrite.t = ev.t
        /\ Len(lastWrite.entries) = 2
        /\ lastWrite.entries[1].key # lastWrite.entries[2].key) =>
          \A i \in 1..2 :
              lastWrite.entries[i].key = ev.key =>
                  /\ ev.ret = SUCCESS
                  /\ ev.value = lastWrite.entries[i].value

\* A get of the first key after a batch of two keys with different values.
C10_Witness ==
    /\ ev.op = "Get"
    /\ lastWrite.op = "PutBatch"
    /\ lastWrite.t = ev.t
    /\ Len(lastWrite.entries) = 2
    /\ lastWrite.entries[1].key # lastWrite.entries[2].key
    /\ lastWrite.entries[1].value # lastWrite.entries[2].value
    /\ lastWrite.entries[1].key = ev.key
    /\ ev.ret = SUCCESS

\* C11: a GetDeviceProfile(key) on an acquired handle whose store holds no
\* value for the key (never put, or deleted and not put again) makes one Get
\* call and returns the store's not-found status, a code other than
\* SUCCESS, as its return value; a get that a thread makes right after its
\* successful DeleteDeviceProfile of the key returns that status too.
C11_NotFoundPassedThrough ==
    /\ (ev.op = "Get" /\ ev.ptr # NULL /\ ev.store0[Blob(ev.key)] = NoValue) =>
          /\ ev.ret = StoreGet(ev.store0, Blob(ev.key)).status
          /\ ev.ret = KEY_NOT_FOUND
          /\ ev.ret # SUCCESS
          /\ Len(ev.calls) = 1
          /\ pc[ev.t] = (IF ev.inCb THEN "cb" ELSE "idle")
    /\ (/\ ev.op = "Get"
        /\ ev.ptr # NULL
        /\ lastWrite.op = "Delete"
        /\ lastWrite.t = ev.t
        /\ lastWrite.entries[1].key = ev.key) =>
          ev.ret = KEY_NOT_FOUND

\* A get of a key that the same thread has just deleted, while the store
\* holds a value for the other key, returned the not-found status.
C11_Witness ==
    /\ ev.op = "Get"
    /\ ev.ptr = HANDLE
    /\ lastWrite.op = "Delete"
    /\ lastWrite.t = ev.t
    /\ lastWrite.entries[1].key = ev.key
    /\ \E k \in BlobKeys : store[k] # NoValue
    /\ ev.ret = KEY_NOT_FOUND

\* C12: a GetDeviceProfile that waits for the shared lock can take it
\* whenever no writer holds the lock, whatever other gets are inside their
\* shared sections; the threads inside shared sections are the shared
\* owners; a get inside its section can run to its return; and a get on an
\* acquired handle returns the store's result.
C12_ReadersShare ==
    /\ \A t \in Threads :
          (pc[t] = "get_wait" /\ writer = NoThread) => ENABLED GetLock(t)
    /\ readers = {t \in Threads : ReadSection(t)}
    /\ \A t \in Threads :
          ReadSection(t) =>
              ENABLED (\E key \in Keys, value \in OutValues :
                          GetRun(t, key, value))
    /\ (ev.op = "Get" /\ ev.ptr # NULL) =>
          /\ ev.ret = StoreGet(ev.store0, Blob(ev.key)).status
          /\ ev.ret = SUCCESS =>
                ev.value = ValueToString(ev.store0[Blob(ev.key)])

\* A get has returned SUCCESS with a value while another get, which was
\* inside its shared section at the same time, is still inside.
C12_Witness ==
    /\ ev.op = "Get"
    /\ ev.ptr = HANDLE
    /\ ev.ret = SUCCESS
    /\ ev.value \in Values
    /\ writer = NoThread
    /\ \E u \in Threads : u # ev.t /\ u \in readers /\ ReadSection(u)

\* A thread that is past Init's writeLock.unlock() and makes no nested
\* call holds storageLock_ in no mode; inside the callback it holds it only
\* within a nested put or get.
C13_NoLockInCallback ==
    \A t \in Threads :
        /\ pc[t] \in {"init_cbcheck", "cb", "init_set"} =>
              writer # t /\ t \notin readers
        /\ inCb[t] =>
              /\ writer = t => pc[t] = "put_locked"
              /\ t \in readers => pc[t] = "get_locked"

\* C13: Init() does not hold storageLock_ while the callback runs, and a
\* get or put that waits for the lock, issued from inside the callback or
\* from another thread while a callback runs, takes the lock and returns,
\* under the scheduling of FairSpec.
C13_CallbackLockFree ==
    /\ []C13_NoLockInCallback
    /\ \A t \in Threads :
          /\ (inCb[t] /\ pc[t] \in {"get_wait", "put_wait"}) ~> (pc[t] = "cb")
          /\ (/\ pc[t] \in {"get_wait", "put_wait"}
              /\ \E u \in Threads : u # t /\ inCb[u])
                 ~> (pc[t] \in {"idle", "cb"})

\* A put made from inside the callback of the first Init() was served on
\* the handle just acquired, before the init status became INIT_SUCCEED.
C13_Witness ==
    /\ ev.op = "Put"
    /\ ev.inCb
    /\ inCb[ev.t]
    /\ ev.ptr = HANDLE
    /\ ev.ret = SUCCESS
    /\ ev.status0 = UNINITED
    /\ GetInitStatus # INIT_SUCCEED

\* C14: an attempt after which TryGetKvStore's loop goes on did not return
\* SUCCESS with a non-null handle, and at most RETRY_TIMES_GET_KVSTORE
\* attempts are made; TryGetKvStore ends either at an attempt that returned
\* SUCCESS and left the handle non-null, and then at once, or after exactly
\* RETRY_TIMES_GET_KVSTORE attempts; it returns true exactly when the handle
\* is non-null at its exit; it writes INIT_FAILED when all attempts were
\* used and the handle is null, and leaves initStatus_ alone otherwise.
C14_AcquisitionLoop ==
    /\ ev.op = "GetKvStore" =>
          /\ ~(ev.ret = SUCCESS /\ ev.ptr # NULL)
          /\ pc[ev.t] = "init_try"
          /\ retryTimes[ev.t] = ev.attempts
          /\ ev.attempts \in 1..RETRY_TIMES_GET_KVSTORE
          /\ initStatus_ = ev.status0
    /\ ev.op = "TryGetKvStore" =>
          /\ kvStorePtr_ = ev.ptr
          /\ ev.bret <=> (ev.ptr # NULL)
          /\ pc[ev.t] = "init_cbcheck"
          /\ ev.attempts \in 1..RETRY_TIMES_GET_KVSTORE
          /\ ev.ret = SUCCESS => ev.ptr # NULL
          /\ ev.ret # SUCCESS => ev.attempts = RETRY_TIMES_GET_KVSTORE
          /\ initStatus_ = IF ev.ret # SUCCESS /\ ev.ptr = NULL
                           THEN INIT_FAILED ELSE ev.status0

\* TryGetKvStore stopped at its third attempt, the first one to succeed.
C14_Witness ==
    /\ ev.op = "TryGetKvStore"
    /\ ev.attempts = 3
    /\ ev.ret = SUCCESS
    /\ ev.bret
    /\ kvStorePtr_ = HANDLE
    /\ initStatus_ = UNINITED

\* The status a call returned and the store it left, as one outcome.
Outcome == [status |-> ev.ret, store |-> store]

\* C15: a get, put, putBatch or delete makes at most one call on the store
\* handle; with no call it returns ERR_DP_INVALID_PARAMS and the store is
\* as it was; with one call the code it returns and the store it leaves are
\* an outcome of that single call, success or failure; DeleteKvStore makes
\* exactly one DeleteKvStore call on the manager.
C15_NoRetry ==
    /\ ev.op \in DataOps =>
          /\ Len(ev.calls) <= 1
          /\ ev.calls = <<>> =>
                ev.ret = ERR_DP_INVALID_PARAMS /\ store = ev.store0
    /\ (ev.op = "Get" /\ ev.calls # <<>>) =>
          /\ ev.calls[1] = StoreCall("Get", Blob(ev.key), NoValue, <<>>)
          /\ ev.ret = StoreGet(ev.store0, Blob(ev.key)).status
          /\ store = ev.store0
    /\ (ev.op = "Put" /\ ev.calls # <<>>) =>
          /\ ev.calls[1] =
                StoreCall("Put", Blob(ev.key), Blob(ev.value), <<>>)
          /\ Outcome \in StorePut(ev.store0, Blob(ev.key), Blob(ev.value))
    /\ (ev.op = "PutBatch" /\ ev.calls # <<>>) =>
          /\ ev.calls[1].fn = "PutBatch"
          /\ Outcome \in StorePutBatch(ev.store0, ev.calls[1].entries)
    /\ (ev.op = "Delete" /\ ev.calls # <<>>) =>
          /\ ev.calls[1] = StoreCall("Delete", Blob(ev.key), NoValue, <<>>)
          /\ Outcome \in StoreDelete(ev.store0, Blob(ev.key))
    /\ ev.op = "DeleteKvStore" =>
          /\ Len(ev.calls) = 1
          /\ ev.calls[1].fn = "DeleteKvStore"
          /\ Outcome \in ManagerDeleteKvStore(ev.store0)

\* A put on an acquired handle failed in the store: one call, its failure
\* code returned, the value the key held still there.
C15_Witness ==
    /\ ev.op = "Put"
    /\ ev.ptr = HANDLE
    /\ ev.ret = DB_ERROR
    /\ Len(ev.calls) = 1
    /\ store[Blob(ev.key)] \in BlobValues
    /\ store[Blob(ev.key)] # Blob(ev.value)

\* A thread that runs no method can run DeleteKvStore() whoever owns
\* storageLock_, and when DeleteKvStore() has returned the handle, the init
\* status and the callback slot are what they were; a get, put or delete
\* that finds the handle non-null makes its call on it.
C16_Uncoordinated ==
    /\ \A t \in Threads : pc[t] = "idle" => ENABLED DeleteKvStore(t)
    /\ ev.op = "DeleteKvStore" =>
          /\ kvStorePtr_ = ev.ptr
          /\ initStatus_ = ev.status0
          /\ kvStoreInitCallback_ = ev.slot0
    /\ (ev.op \in {"Get", "Put", "Delete"} /\ ev.ptr # NULL) =>
          Len(ev.calls) = 1

\* C16: DeleteKvStore() never takes storageLock_ and waits for no owner of
\* it, so it can run while another thread is inside a locked section; its
\* step leaves the lock's owners, kvStorePtr_, initStatus_ and the callback
\* slot unchanged, and later gets and puts are still delegated to the handle.
C16_DeleteKvStoreNoLock ==
    /\ []C16_Uncoordinated
    /\ [][(ev'.op = "DeleteKvStore") =>
              UNCHANGED <<writer, readers, kvStorePtr_, initStatus_,
                          kvStoreInitCallback_>>]_vars

\* DeleteKvStore() has emptied a populated store while the other thread
\* was inside the exclusive section of its put; the handle is still there.
C16_Witness ==
    /\ ev.op = "DeleteKvStore"
    /\ ev.ret = SUCCESS
    /\ ev.store0 # EmptyStore
    /\ store = EmptyStore
    /\ kvStorePtr_ = HANDLE
    /\ \E u \in Threads : u # ev.t /\ pc[u] = "put_locked" /\ writer = u

\* storageLock_ is owned only by threads inside their locked sections: none
\* owns it when no call is in progress, and a get, put, putBatch or delete
\* that has just returned, on whatever path, owns it in no mode.
C17_LockHeldOnlyInside ==
    /\ \A t \in Threads : writer = t => WriteSection(t)
    /\ readers = {t \in Threads : ReadSection(t)}
    /\ (\A t \in Threads : pc[t] = "idle") =>
          writer = NoThread /\ readers = {}
    /\ ev.op \in DataOps => writer # ev.t /\ ev.t \notin readers

\* C17: every operation gives storageLock_ back on every return path, so
\* the lock has no owner when no call is in progress, and every get, put,
\* putBatch or delete that was invoked returns, under the scheduling of
\* FairData.
C17_LockAlwaysReleased ==
    /\ []C17_LockHeldOnlyInside
    /\ \A t \in Threads :
          (pc[t] \in {"get_wait", "put_wait", "batch_wait", "del_wait"})
              ~> (pc[t] = "idle")

\* A putBatch on an acquired handle has returned on its length-mismatch
\* path, and the lock is free for the delete that waits for it.
C17_Witness ==
    /\ ev.op = "PutBatch"
    /\ ev.ptr = HANDLE
    /\ Len(ev.keys) # Len(ev.values)
    /\ ev.ret = ERR_DP_INVALID_PARAMS
    /\ writer = NoThread
    /\ \E u \in Threads : u # ev.t /\ pc[u] = "del_wait"

\* A get that did not return SUCCESS left the caller's value as it was; one
\* that returned SUCCESS set it to the stored value; and the store, the
\* handle and the init status are what they were when the body ran.
C18_GetReturned ==
    /\ (ev.op = "Get" /\ ev.ret # SUCCESS) => ev.value = ev.value0
    /\ (ev.op = "Get" /\ ev.value # ev.value0) =>
          /\ ev.ret = SUCCESS
          /\ ev.value = ValueToString(ev.store0[Blob(ev.key)])
    /\ ev.op = "Get" =>
          /\ store = ev.store0
          /\ kvStorePtr_ = ev.ptr
          /\ initStatus_ = ev.status0

\* C18: a GetDeviceProfile that does not return SUCCESS (null handle or a
\* failure status of the store's Get) leaves the caller's output value as
\* it was, the output is assigned only when the store's Get returns
\* SUCCESS, and no step of a GetDeviceProfile changes the store contents,
\* kvStorePtr_ or initStatus_.
C18_GetFrame ==
    /\ []C18_GetReturned
    /\ [][\A t \in Threads :
            (pc'[t] # pc[t] /\ (pc[t] \in {"get_wait", "get_locked"}
                                \/ pc'[t] = "get_wait")) =>
                UNCHANGED <<store, kvStorePtr_, initStatus_>>]_vars

\* A get of a key without a value returned the not-found status and left
\* the value the caller had passed in.
C18_Witness ==
    /\ ev.op = "Get"
    /\ ev.ptr = HANDLE
    /\ ev.ret = KEY_NOT_FOUND
    /\ ev.value0 \in Values
    /\ ev.value = ev.value0

\* An Init() that has just returned invoked the callback once when the slot
\* held a callback as the call started, never when the slot is still empty,
\* and at most once in any case, with the handle acquired or not.
C19_OncePerCall ==
    ev.op = "Init" =>
        /\ ev.cbs \in {0, 1}
        /\ ev.slot0 # NULL => ev.cbs = 1
        /\ ev.cb = NULL => ev.cbs = 0
        /\ kvStoreInitCallback_ = ev.cb

\* C19: each Init() call invokes the callback exactly once when a non-empty
\* callback was registered before the call started and not at all when none
\* is registered, whether or not the handle was acquired; and no step but a
\* RegisterKvStoreInitCallback on an empty slot changes the callback slot,
\* so every later Init() call invokes the same callback once more.
C19_CallbackOncePerInit ==
    /\ []C19_OncePerCall
    /\ [][(kvStoreInitCallback_' # kvStoreInitCallback_) =>
              (ev'.op = "Register" /\ kvStoreInitCallback_ = NULL)]_vars

\* An Init() that began with the callback registered and after an earlier
\* Init() had returned has returned: it failed to acquire the handle and
\* invoked the callback once.
C19_Witness ==
    /\ ev.op = "Init"
    /\ ev.hadTrue
    /\ ev.slot0 \in Callbacks
    /\ ev.ptr = NULL
    /\ ev.cbs = 1

====
